---- MODULE Spec2Model ----
(***************************************************************************)
(* Model of maths/pollards_p_minus_1.py: pollard_rho(num, B, step,         *)
(* attempts) and its nested generator generate_primes(limit).              *)
(*                                                                         *)
(* One call of pollard_rho is a state machine.  pc is the position of the  *)
(* call: "entry" (the two argument checks), "loop" (head of the            *)
(* `for _ in range(attempts)` loop), "gen" (the inner for loop asks the    *)
(* generator for its next prime), "body" (a prime was yielded, the loop    *)
(* body is about to run) and "done" (the call returned or raised).         *)
(***************************************************************************)
EXTENDS Integers, Sequences, FiniteSets, TLC

VARIABLES
    num,          \* argument num
    B,            \* argument B
    attempts,     \* argument attempts
    pc,           \* position of the call
    outcome,      \* "running", "None", "divisor" or "ValueError"
    attempt,      \* iterations of the attempts loop started so far
    guess,        \* local guess (0 while unbound)
    sieve,        \* candidates the generator's sieve iterator still delivers
    prime,        \* last prime yielded (0: the generator has not yielded yet)
    s,            \* local s
    r,            \* local r
    divisor,      \* local divisor (0 while unbound)
    draws,        \* history: calls of randint
    folds,        \* history: executions of the loop body (lines 58-63)
    attemptFolds, \* history: executions of the loop body in this attempt
    yielded       \* history: primes yielded by this attempt's generator

vars == <<num, B, attempts, pc, outcome, attempt, guess, sieve, prime, s, r,
          divisor, draws, folds, attemptFolds, yielded>>

(***************************************************************************)
(* Bounds of the model.                                                    *)
(***************************************************************************)
MaxNeg == 2
MaxNum == 18
MaxB == 8
MaxAttempts == 2
MaxWideNum == 3
MaxWideB == 250

(***************************************************************************)
(* Arithmetic used by the code.                                            *)
(***************************************************************************)
Abs(x) == IF x < 0 THEN -x ELSE x

RECURSIVE GcdNat(_, _)
GcdNat(a, b) == IF b = 0 THEN a ELSE GcdNat(b, a % b)

\* math.gcd: the non-negative gcd of the absolute values.
gcd(a, b) == GcdNat(Abs(a), Abs(b))

RECURSIVE pow(_, _)
\* pow(prime, s): integer power.
pow(b, e) == IF e = 0 THEN 1 ELSE b * pow(b, e - 1)

RECURSIVE ModPow(_, _, _)
\* pow(guess, r, num): modular power, the result is reduced into [0, m).
ModPow(b, e, m) ==
    IF e = 0 THEN 1 % m
    ELSE LET h == ModPow(b, e \div 2, m)
             sq == (h * h) % m
         IN  IF e % 2 = 0 THEN sq ELSE (sq * (b % m)) % m

RECURSIVE FloorLog(_, _)
\* The largest e with p^e <= b (b >= 1, p >= 2).
FloorLog(b, p) == IF b < p THEN 0 ELSE 1 + FloorLog(b \div p, p)

\* The exact powers b = p^k, b <= 10^6, p prime, at which the double quotient
\* log(b) / log(p) that math.log(b, p) returns is below k (3^5: 4.999999999999999).
RoundsBelow ==
    { <<243, 3>>, <<4913, 17>>, <<29791, 31>>, <<59049, 3>>, <<68921, 41>>,
      <<571787, 83>> }

IntLogCeil(b, p) == FloorLog(b, p) + 1

\* int(log(B, prime)): math.log divides two doubles and int() truncates.
IntLog(b, p) ==
    IF <<b, p>> \in RoundsBelow THEN FloorLog(b, p) - 1 ELSE FloorLog(b, p)

\* Lines 58-60: s, r and the new guess.
Fold(g, p, b, n) == ModPow(g, pow(p, IntLog(b, p)), n)

(***************************************************************************)
(* The conditions of the code.                                             *)
(***************************************************************************)
IsNegativeOff(n) == n < -1

\* Line 27: num < 0.
IsNegative(n) == n < 0

BelowTwoOff(n) == n < 1

\* Line 31: num < 2.
BelowTwo(n) == n < 2

NontrivialNotOne(d, n) == d # 1

NontrivialNotNum(d, n) == d # n

\* Line 63: divisor != 1 and divisor != num.
Nontrivial(d, n) == d # 1 /\ d # n

LoopContinuesOff(i, n) == i <= n

\* Line 55: range(attempts) has an element left after i iterations.
LoopContinues(i, n) == i < n

BasesFromOne(n) == 1..n

\* Line 56: the values randint(2, num) can return.
Bases(n) == 2..n

(***************************************************************************)
(* generate_primes.                                                        *)
(***************************************************************************)
\* range(2, limit + 1) as the sequence it delivers.
Range(lo, hi) == IF hi < lo THEN << >> ELSE [i \in 1..(hi - lo + 1) |-> lo + i - 1]

ResumeNoFilter(sv, p) == sv

\* Lines 52-53, run when the generator is resumed after yielding p: the
\* sieve is wrapped in filter(x % p != 0).  p = 0: nothing was yielded yet.
Resume(sv, p) ==
    IF p = 0 THEN sv
    ELSE LET not_multiple_of_prime(x) == x % p # 0
         IN  SelectSeq(sv, not_multiple_of_prime)

RECURSIVE Run(_, _, _, _, _)
\* The inner for loop (lines 57-65) from sieve state (sv, p) with guess g:
\* the divisor it returns, 0 when the generator is exhausted first.
Run(n, b, g, sv, p) ==
    LET rest == Resume(sv, p)
    IN  IF rest = << >> THEN 0
        ELSE LET q == Head(rest)
                 g2 == Fold(g, q, b, n)
                 d == gcd(g2 - 1, n)
             IN  IF Nontrivial(d, n) THEN d ELSE Run(n, b, g2, Tail(rest), q)

\* One iteration of the attempts loop whose randint returned g.
AttemptResult(n, b, g) == Run(n, b, g, Range(2, b), 0)

(***************************************************************************)
(* Initial states.                                                         *)
(***************************************************************************)
Locals ==
    /\ pc = "entry"
    /\ outcome = "running"
    /\ attempt = 0
    /\ guess = 0
    /\ sieve = << >>
    /\ prime = 0
    /\ s = 0
    /\ r = 0
    /\ divisor = 0
    /\ draws = 0
    /\ folds = 0
    /\ attemptFolds = 0
    /\ yielded = << >>

Init ==
    /\ num \in (-MaxNeg)..MaxNum
    /\ B \in (-MaxNeg)..MaxB
    /\ attempts \in 0..MaxAttempts
    /\ Locals

\* Calls with a wide range of B and few values of num.
InitWide ==
    /\ num \in 2..MaxWideNum
    /\ B \in (-MaxNeg)..MaxWideB
    /\ attempts \in 1..2
    /\ Locals

\* The call pollard_rho(8051, 10, attempts=5).
InitScenario ==
    /\ num = 8051
    /\ B = 10
    /\ attempts = 5
    /\ Locals

(***************************************************************************)
(* Actions.                                                                *)
(***************************************************************************)
\* Lines 27-28: raise ValueError.
RaiseNegative ==
    /\ pc = "entry"
    /\ IsNegative(num)
    /\ pc' = "done"
    /\ outcome' = "ValueError"
    /\ UNCHANGED <<num, B, attempts, attempt, guess, sieve, prime, s, r,
                   divisor, draws, folds, attemptFolds, yielded>>

\* Lines 31-32: return None.
ReturnSmall ==
    /\ pc = "entry"
    /\ ~IsNegative(num)
    /\ BelowTwo(num)
    /\ pc' = "done"
    /\ outcome' = "None"
    /\ UNCHANGED <<num, B, attempts, attempt, guess, sieve, prime, s, r,
                   divisor, draws, folds, attemptFolds, yielded>>

\* Both checks pass: control reaches the attempts loop (line 55).
EnterLoop ==
    /\ pc = "entry"
    /\ ~IsNegative(num)
    /\ ~BelowTwo(num)
    /\ pc' = "loop"
    /\ UNCHANGED <<num, B, attempts, outcome, attempt, guess, sieve, prime, s,
                   r, divisor, draws, folds, attemptFolds, yielded>>

\* Lines 55-57: next iteration of the attempts loop: draw the base and
\* create a new generator over range(2, B + 1).
StartAttempt ==
    /\ pc = "loop"
    /\ LoopContinues(attempt, attempts)
    /\ \E g \in Bases(num) : guess' = g
    /\ attempt' = attempt + 1
    /\ draws' = draws + 1
    /\ sieve' = Range(2, B)
    /\ prime' = 0
    /\ yielded' = << >>
    /\ attemptFolds' = 0
    /\ pc' = "gen"
    /\ UNCHANGED <<num, B, attempts, outcome, s, r, divisor, folds>>

\* Lines 46-53: the generator is resumed and yields the next prime.
GenYield ==
    /\ pc = "gen"
    /\ LET rest == Resume(sieve, prime)
       IN  /\ rest # << >>
           /\ prime' = Head(rest)
           /\ sieve' = Tail(rest)
           /\ yielded' = Append(yielded, Head(rest))
    /\ pc' = "body"
    /\ UNCHANGED <<num, B, attempts, outcome, attempt, guess, s, r, divisor,
                   draws, folds, attemptFolds>>

\* Lines 47-50: the sieve raises StopIteration, the generator ends and the
\* inner for loop with it.
GenStop ==
    /\ pc = "gen"
    /\ Resume(sieve, prime) = << >>
    /\ sieve' = << >>
    /\ pc' = "loop"
    /\ UNCHANGED <<num, B, attempts, outcome, attempt, guess, prime, s, r,
                   divisor, draws, folds, attemptFolds, yielded>>

\* Lines 58-65: the loop body.
FoldIn ==
    /\ pc = "body"
    /\ s' = IntLog(B, prime)
    /\ r' = pow(prime, s')
    /\ guess' = ModPow(guess, r', num)
    /\ divisor' = gcd(guess' - 1, num)
    /\ folds' = folds + 1
    /\ attemptFolds' = attemptFolds + 1
    /\ IF Nontrivial(divisor', num)
       THEN /\ pc' = "done"
            /\ outcome' = "divisor"
       ELSE /\ pc' = "gen"
            /\ outcome' = outcome
    /\ UNCHANGED <<num, B, attempts, attempt, sieve, prime, draws,
                   yielded>>

\* Line 69: the attempts are used up.
ReturnNone ==
    /\ pc = "loop"
    /\ ~LoopContinues(attempt, attempts)
    /\ pc' = "done"
    /\ outcome' = "None"
    /\ UNCHANGED <<num, B, attempts, attempt, guess, sieve, prime, s, r,
                   divisor, draws, folds, attemptFolds, yielded>>

Next ==
    \/ RaiseNegative
    \/ ReturnSmall
    \/ EnterLoop
    \/ StartAttempt
    \/ GenYield
    \/ GenStop
    \/ FoldIn
    \/ ReturnNone

\* The steps of a call whose num passed both checks.
NextLoop ==
    \/ EnterLoop
    \/ StartAttempt
    \/ GenYield
    \/ GenStop
    \/ FoldIn
    \/ ReturnNone

Spec == Init /\ [][Next]_vars

\* The interpreter keeps executing the call: a step that is possible is taken.
FairSpec == Init /\ [][Next]_vars /\ WF_vars(Next)

SpecWide == InitWide /\ [][NextLoop]_vars

SpecScenario == InitScenario /\ [][NextLoop]_vars

(***************************************************************************)
(* Vocabulary of the properties.                                           *)
(***************************************************************************)
IsPrime(n) == n >= 2 /\ \A d \in 2..(n - 1) : d * d > n \/ n % d # 0

IsComposite(n) == n >= 4 /\ ~IsPrime(n)

PrimeFactors(n) == {q \in 2..n : n % q = 0 /\ IsPrime(q)}

\* m is b-smooth: every prime factor of m is <= b.
Smooth(m, b) == \A q \in PrimeFactors(m) : q <= b

HasSmoothFactor(n, b) == \E q \in PrimeFactors(n) : Smooth(q - 1, b)

PowerOfTwo(n) == PrimeFactors(n) = {2}

PrimeCount(b) == Cardinality({q \in 2..b : IsPrime(q)})

ProperDivisor(d, n) == 1 < d /\ d < n /\ n % d = 0

\* Some base randint can return makes the attempt return a proper divisor.
SuccessReachable == \E g \in 2..num : ProperDivisor(AttemptResult(num, B, g), num)

\* The generator of the current attempt ran to its end.
Exhausted == pc \in {"loop", "done"} /\ attempt > 0 /\ outcome # "divisor"

(***************************************************************************)
(* Properties.                                                             *)
(***************************************************************************)
\* C1: whenever pollard_rho returns a value other than None, that value d
\* divides num exactly and 1 < d < num.
C1_ProperDivisor == outcome = "divisor" => ProperDivisor(divisor, num)

C1_Witness == outcome = "divisor" /\ attempt = 2 /\ attemptFolds = 2

\* C2: for negative num the call ends in ValueError, and no base is drawn,
\* no prime is generated, no fold-in step runs and no value is returned.
C2_NegativeRaises ==
    num < 0 =>
        /\ pc \in {"entry", "done"}
        /\ pc = "done" => outcome = "ValueError"
        /\ pc = "entry" => outcome = "running"
        /\ draws = 0 /\ folds = 0 /\ attempt = 0
        /\ yielded = << >> /\ sieve = << >> /\ guess = 0 /\ divisor = 0

C2_Witness == num < 0 /\ pc = "done" /\ outcome = "ValueError"

\* C3: for num in {0, 1} the call returns None at once: the attempts loop
\* is never entered, no base is drawn and no prime is generated.
C3_SmallReturnsNone ==
    num \in {0, 1} =>
        /\ pc \in {"entry", "done"}
        /\ pc = "done" => outcome = "None"
        /\ pc = "entry" => outcome = "running"
        /\ draws = 0 /\ folds = 0 /\ attempt = 0
        /\ yielded = << >> /\ sieve = << >> /\ guess = 0 /\ divisor = 0

C3_Witness == num = 1 /\ pc = "done" /\ outcome = "None" /\ attempts > 0 /\ B >= 2

\* C4: the generator yields primes only, each at most B, in strictly
\* ascending order, skipping no prime below the last one yielded; when it
\* stops it has yielded every prime in 2..B, and nothing when B < 2.  The
\* sequence depends on B alone, so every attempt's generator yields the same.
C4_PrimeStream ==
    LET n == Len(yielded)
        limit == IF Exhausted THEN B ELSE IF n = 0 THEN 1 ELSE yielded[n]
    IN  /\ \A i \in 1..n : IsPrime(yielded[i]) /\ yielded[i] <= B
        /\ \A i \in 1..(n - 1) : yielded[i] < yielded[i + 1]
        /\ \A q \in 2..limit : IsPrime(q) => \E i \in 1..n : yielded[i] = q
        /\ pc = "body" => prime = yielded[n]

C4_Witness == Exhausted /\ attempt = 2 /\ Len(yielded) >= 50

\* C5: if num is prime no fold-in step produces a gcd other than 1 and num,
\* and the call returns None.
C5_PrimeReturnsNone ==
    IsPrime(num) =>
        /\ outcome # "divisor"
        /\ folds > 0 => divisor \in {1, num}
        /\ pc = "done" => outcome = "None"

\* A prime num whose last base was num itself (the guess folded to 0).
C5_Witness ==
    IsPrime(num) /\ pc = "done" /\ outcome = "None" /\ attemptFolds > 0 /\ guess = 0

\* C6 as stated: pollard_rho(8051, 10, attempts=5) returns 83 or 97.
C6_AlwaysFactor == pc = "done" => (outcome = "divisor" /\ divisor \in {83, 97})

\* C6 as amended: pollard_rho(8051, 10, attempts=5) returns None, after five
\* bases were drawn, or a divisor that is 83 or 97.
C6_FactorOrNone ==
    pc = "done" =>
        \/ outcome = "None" /\ draws = 5
        \/ outcome = "divisor" /\ divisor \in {83, 97}

C6_Witness == pc = "done" /\ outcome = "divisor" /\ divisor = 83 /\ attempt = 5

\* C7 as stated (with B >= 2 and attempts >= 1 granted): for a composite num
\* with a prime factor p such that p - 1 is B-smooth, some base makes the
\* call return a proper divisor.
C7_SmoothReachable ==
    (pc = "done" /\ IsComposite(num) /\ HasSmoothFactor(num, B) /\ B >= 2
        /\ attempts >= 1)
    => SuccessReachable

\* C7 as amended: for a composite num with a prime factor p such that p - 1
\* is B-smooth, B >= 2, and num not a power of two or 4 * B < num, some base
\* makes an attempt return a proper divisor of num.
C7_Reachable ==
    (IsComposite(num) /\ HasSmoothFactor(num, B) /\ B >= 2
        /\ (~PowerOfTwo(num) \/ 4 * B < num))
    => SuccessReachable

C7_Witness ==
    /\ outcome = "divisor" /\ ProperDivisor(divisor, num)
    /\ IsComposite(num) /\ HasSmoothFactor(num, B) /\ PowerOfTwo(num)

\* C8: a call terminates; it draws at most `attempts` bases and runs at most
\* attempts * (number of primes <= B) fold-in steps; when it returns None
\* for num >= 2 it has drawn exactly `attempts` bases; it returns None when
\* B < 2 or attempts = 0.
C8_Terminates ==
    /\ <>(pc = "done")
    /\ [](num >= 2 =>
            /\ draws <= attempts
            /\ draws = attempt
            /\ folds <= attempts * PrimeCount(B)
            /\ (pc = "done" /\ outcome = "None") => draws = attempts
            /\ (pc = "done" /\ (B < 2 \/ attempts = 0)) => outcome = "None")

C8_Witness ==
    /\ pc = "done" /\ outcome = "None" /\ num >= 2 /\ attempts = 2 /\ draws = 2
    /\ B >= 5 /\ folds = attempts * PrimeCount(B)

\* C9 as stated: after the fold-in step for a prime, s is the largest integer
\* with prime^s <= B (prime^s <= B < prime^(s+1)) and r = prime^s.
C9_ExactExponent ==
    (attemptFolds > 0 /\ pc # "body") =>
        (r = pow(prime, s) /\ r <= B /\ B < r * prime)

\* C10 as stated: once drawn, guess is in [0, num).
C10_BelowNum == draws > 0 => (0 <= guess /\ guess < num)

\* C10 as amended: the freshly drawn base is in [2, num] and can be num
\* itself; after each fold-in step guess is in [0, num).
C10_GuessRange ==
    draws > 0 =>
        /\ attemptFolds = 0 => (2 <= guess /\ guess <= num)
        /\ attemptFolds > 0 => (0 <= guess /\ guess < num)

C10_Witness == pc = "body" /\ attempt = 2 /\ attemptFolds = 1 /\ guess = num - 1

====
